---- MODULE Spec2Model ----
(***************************************************************************)
(* Juma Trek API (src/main.py, src/schemas.py): the HTTP route handlers,   *)
(* the admin gate, the notification gateway and the admin login, over the  *)
(* four collections trek, blogpost, inquiry and adminuser.                 *)
(*                                                                         *)
(* Strings the code inspects character by character (identifiers, regex    *)
(* patterns and the texts they are matched against, e-mail addresses) are  *)
(* sequences of one-character strings.  Strings the code only compares or  *)
(* tests for emptiness (environment values, passwords, header values) are  *)
(* TLA+ strings.  A JSON null and an absent key are both modelled as a key *)
(* that is not in the record's domain.                                     *)
(***************************************************************************)
EXTENDS Integers, Sequences, FiniteSets, TLC

VARIABLES env, trek, blogpost, inquiry, adminuser, oid_count, now, created, removed, pre, req, resp, io, smtp_calls

vars == <<env, trek, blogpost, inquiry, adminuser, oid_count, now, created, removed, pre, req, resp, io, smtp_calls>>

\* ------------------------------------------------------------------ bounds

\* requests per behaviour
MaxReq == 2

\* documents a collection holds at once
MaxDocs == 2

\* ----------------------------------------------------------------- strings

UpperChars == <<"A","B","C","D","E","F","G","H","I","J","K","L","M","N","O","P","Q","R","S","T","U","V","W","X","Y","Z">>

LowerChars == <<"a","b","c","d","e","f","g","h","i","j","k","l","m","n","o","p","q","r","s","t","u","v","w","x","y","z">>

HexLower == <<"0","1","2","3","4","5","6","7","8","9","a","b","c","d","e","f">>

HexChars == {HexLower[i] : i \in 1..16} \cup {"A","B","C","D","E","F"}

LowerOf == [c \in {UpperChars[i] : i \in 1..26} |-> LowerChars[CHOOSE i \in 1..26 : UpperChars[i] = c]]

UpperOf == [c \in {LowerChars[i] : i \in 1..26} |-> UpperChars[CHOOSE i \in 1..26 : LowerChars[i] = c]]

Lower(c) == IF c \in DOMAIN LowerOf THEN LowerOf[c] ELSE c

Upper(c) == IF c \in DOMAIN UpperOf THEN UpperOf[c] ELSE c

LowerStr(s) == [i \in 1..Len(s) |-> Lower(s[i])]

UpperStr(s) == [i \in 1..Len(s) |-> Upper(s[i])]

Restrict(f, S) == [k \in (DOMAIN f) \cap S |-> f[k]]

\* "if x:" on an optional text: false when x is None (absent) or empty
Truthy(f, k) == k \in DOMAIN f /\ f[k] /= <<>>

\* ------------------------------------------------------- regular expressions
\* MongoDB's $regex on the patterns the handlers build: literal characters,
\* "." for any character, "^" at the start and "$" at the end; option "i"
\* compares letters without case.  An unanchored pattern is searched for
\* anywhere in the text.

CharMatch(pc, tc, icase) == pc = "." \/ (IF icase THEN Lower(pc) = Lower(tc) ELSE pc = tc)

MatchAt(p, t, i, icase) == i + Len(p) - 1 <= Len(t) /\ \A k \in 1..Len(p) : CharMatch(p[k], t[i + k - 1], icase)

RegexSearch(pat, t, icase) ==
    LET anchS == Len(pat) > 0 /\ pat[1] = "^"
        p1    == IF anchS THEN Tail(pat) ELSE pat
        anchE == Len(p1) > 0 /\ p1[Len(p1)] = "$"
        core  == IF anchE THEN SubSeq(p1, 1, Len(p1) - 1) ELSE p1
        from  == IF anchS THEN {1} ELSE 1..(Len(t) + 1)
    IN  \E i \in from : MatchAt(core, t, i, icase) /\ (anchE => i + Len(core) - 1 = Len(t))

\* ------------------------------------------------------------- identifiers

\* bson.ObjectId: 12 bytes, written as 24 hexadecimal characters
OidLen == 24

\* ObjectId(id_str) accepts exactly the strings of 24 hexadecimal digits, of
\* either case; the value is the 12 bytes, here their lower-case digits.
IsObjectIdStr(s) == Len(s) = OidLen /\ \A i \in 1..Len(s) : s[i] \in HexChars

ObjectId(s) == LowerStr(s)

\* the k-th identifier the store generates
NewObjectId(k) == [i \in 1..OidLen |-> IF i = 1 THEN "f" ELSE IF i = OidLen THEN HexLower[(k % 16) + 1] ELSE IF i = OidLen - 1 THEN HexLower[((k \div 16) % 16) + 1] ELSE "0"]

\* ---------------------------------------------------------------- responses

Ok(body) == [status |-> 200, detail |-> "", body |-> body]

HTTPException(status_code, detail) == [status |-> status_code, detail |-> detail, body |-> <<>>]

\* FastAPI answers a body or query parameter that fails validation with 422
RequestValidationError == HTTPException(422, "Unprocessable Entity")

\* FastAPI answers an exception no handler catches with 500
InternalServerError == HTTPException(500, "Internal Server Error")

\* a to_object_id that checks the length alone
to_object_id_by_length(id_str) == IF Len(id_str) = OidLen THEN [ok |-> TRUE, oid |-> ObjectId(id_str)] ELSE [ok |-> FALSE, exc |-> HTTPException(400, "Invalid id")]

to_object_id(id_str) == IF IsObjectIdStr(id_str) THEN [ok |-> TRUE, oid |-> ObjectId(id_str)] ELSE [ok |-> FALSE, exc |-> HTTPException(400, "Invalid id")]

\* ------------------------------------------------------------ serialization

datetime(t) == [datetime |-> t]

IsDatetime(v) == DOMAIN v = {"datetime"}

isoformat(v) == [iso |-> v.datetime]

DatetimeKeys == {"updated_at", "created_at"}

\* serialize_doc: _id becomes id, the identifier's string; datetimes become
\* ISO strings.  Only updated_at and created_at can hold a datetime.
serialize_doc(doc) ==
    LET d1 == ("id" :> doc["_id"]) @@ Restrict(doc, DOMAIN doc \ {"_id"})
    IN  [k \in DOMAIN d1 |-> IF k \in DatetimeKeys /\ IsDatetime(d1[k]) THEN isoformat(d1[k]) ELSE d1[k]]

\* -------------------------------------------------------------- environment
\* env holds the process environment: a variable that is not set is not in
\* its domain.

\* os.getenv(k) is truthy: set and not empty
EnvSet(k) == k \in DOMAIN env /\ env[k] /= ""

\* the values int() parses; any other text raises ValueError
IntOfStr == [s \in {"0", "465"} |-> IF s = "0" THEN 0 ELSE 465]

\* ------------------------------------------------------------------ schemas

TrekFields == {"title", "slug", "region", "difficulty", "duration_days", "price_usd", "max_altitude_m", "highlights", "overview", "itinerary", "inclusions", "exclusions", "images", "is_featured"}

TrekRequired == {"title", "region", "difficulty", "duration_days", "price_usd", "overview"}

TrekDefaults == [highlights |-> <<>>, itinerary |-> <<>>, inclusions |-> <<>>, exclusions |-> <<>>, images |-> <<>>, is_featured |-> FALSE]

ValidTrek(b) ==
    /\ TrekRequired \subseteq DOMAIN b
    /\ b.duration_days >= 1
    /\ b.price_usd >= 0
    /\ ("max_altitude_m" \in DOMAIN b => b.max_altitude_m >= 0)

\* Trek(**body).model_dump(): the declared fields, defaults filled in
Trek(b) == Restrict(b, TrekFields) @@ TrekDefaults

BlogPostFields == {"title", "slug", "excerpt", "content", "cover_image", "tags", "published", "published_on"}

BlogPostRequired == {"title", "content"}

BlogPostDefaults == [tags |-> <<>>, published |-> TRUE]

ValidBlogPost(b) == BlogPostRequired \subseteq DOMAIN b

BlogPost(b) == Restrict(b, BlogPostFields) @@ BlogPostDefaults

\* EmailStr: one "@" with a non-empty local part before it and a domain
\* holding a "." after it
IsEmail(s) ==
    /\ Cardinality({i \in 1..Len(s) : s[i] = "@"}) = 1
    /\ LET at == CHOOSE i \in 1..Len(s) : s[i] = "@"
       IN  at > 1 /\ \E j \in (at + 2)..(Len(s) - 1) : s[j] = "."

InquiryFields == {"name", "email", "trek_id", "subject", "message", "preferred_start_date", "travelers"}

InquiryRequired == {"name", "email", "message"}

InquiryDefaults == [travelers |-> 1]

ValidInquiry(b) ==
    /\ InquiryRequired \subseteq DOMAIN b
    /\ IsEmail(b.email)
    /\ ("travelers" \in DOMAIN b => b.travelers >= 1)

Inquiry(b) == Restrict(b, InquiryFields) @@ InquiryDefaults

AdminUserDefaults == [role |-> "admin"]

ValidCreateAdmin(b) == {"email", "password"} \subseteq DOMAIN b /\ IsEmail(b.email)

ValidAdminAuth(b) == {"email", "password"} \subseteq DOMAIN b /\ IsEmail(b.email)

\* ----------------------------------------------------------- document store
\* A collection is a function from identifiers to documents; a document is
\* a record holding its identifier under "_id".

\* insert: the store gives the document the next identifier
create_document(coll, data, k) == coll @@ (NewObjectId(k) :> (data @@ ("_id" :> NewObjectId(k))))

\* one condition of a filter on field k of a document
CondHolds(doc, k, c) ==
    IF "regex" \in DOMAIN c THEN k \in DOMAIN doc /\ RegexSearch(c.regex, doc[k], c.options = "i")
    ELSE IF "elemMatch" \in DOMAIN c THEN k \in DOMAIN doc /\ \E i \in 1..Len(doc[k]) : RegexSearch(c.elemMatch.regex, doc[k][i], c.elemMatch.options = "i")
    ELSE IF "eq" \in DOMAIN c THEN k \in DOMAIN doc /\ doc[k] = c.eq
    ELSE k \in DOMAIN doc /\ ("gte" \in DOMAIN c => doc[k] >= c.gte) /\ ("lte" \in DOMAIN c => doc[k] <= c.lte)

\* a filter: every field condition holds, and one alternative of "or" if given
FilterHolds(doc, f) ==
    /\ \A k \in DOMAIN f \ {"or"} : CondHolds(doc, k, f[k])
    /\ ("or" \in DOMAIN f => \E i \in 1..Len(f["or"]) : \A k \in DOMAIN f["or"][i] : CondHolds(doc, k, f["or"][i][k]))

\* the identifiers of a collection, oldest first
InsertionOrder(coll) ==
    LET ks == {k \in 1..oid_count : NewObjectId(k) \in DOMAIN coll}
        n  == Cardinality(ks)
        s  == CHOOSE q \in [1..n -> ks] : \A i, j \in 1..n : i < j => q[i] < q[j]
    IN  [i \in 1..n |-> NewObjectId(s[i])]

RECURSIVE SelectSeq2(_, _, _)
SelectSeq2(coll, ids, f) ==
    IF ids = <<>> THEN <<>>
    ELSE (IF FilterHolds(coll[Head(ids)], f) THEN <<coll[Head(ids)]>> ELSE <<>>) \o SelectSeq2(coll, Tail(ids), f)

\* find: the documents the filter holds for
get_documents(coll, filter_q) == SelectSeq2(coll, InsertionOrder(coll), filter_q)

SerializeAll(docs) == [i \in 1..Len(docs) |-> serialize_doc(docs[i])]

\* --------------------------------------------------------------- admin gate

Pass == [ok |-> TRUE]

Raise(exc) == [ok |-> FALSE, exc |-> exc]

\* a gate that lets a request without the header through
require_admin_no_header(headers) ==
    IF EnvSet("ADMIN_API_KEY") /\ "x-admin-key" \in DOMAIN headers /\ headers["x-admin-key"] /= env["ADMIN_API_KEY"]
    THEN Raise(HTTPException(401, "Unauthorized"))
    ELSE Pass

\* headers: the request's headers; X-Admin-Key is in its domain when sent
require_admin(headers) ==
    IF EnvSet("ADMIN_API_KEY") /\ "x-admin-key" \in DOMAIN headers /\ headers["x-admin-key"] = env["ADMIN_API_KEY"] THEN Pass
    ELSE IF ~EnvSet("ADMIN_API_KEY") THEN Pass
    ELSE Raise(HTTPException(401, "Unauthorized"))

\* ---------------------------------------------------------- pymongo calls

\* find_one({"_id": oid}): the document in a sequence, or the empty sequence
find_one(coll, oid) == IF oid \in DOMAIN coll THEN <<coll[oid]>> ELSE <<>>

\* an update that inserts the document when none matches (upsert)
update_one_upsert(coll, oid, fields, keys) ==
    IF oid \in DOMAIN coll
    THEN [matched_count |-> 1, coll |-> [coll EXCEPT ![oid] = fields @@ Restrict(@, DOMAIN @ \ keys)]]
    ELSE [matched_count |-> 0, coll |-> coll @@ (oid :> (fields @@ ("_id" :> oid)))]

\* an update that leaves a key alone when its new value is null
update_one_keep_nulls(coll, oid, fields, keys) ==
    IF oid \in DOMAIN coll
    THEN [matched_count |-> 1, coll |-> [coll EXCEPT ![oid] = fields @@ @]]
    ELSE [matched_count |-> 0, coll |-> coll]

\* update_one({"_id": oid}, {"$set": fields}): every key of keys is set, to
\* its value in fields or to null; the document's other keys are kept
update_one(coll, oid, fields, keys) ==
    IF oid \in DOMAIN coll
    THEN [matched_count |-> 1, coll |-> [coll EXCEPT ![oid] = fields @@ Restrict(@, DOMAIN @ \ keys)]]
    ELSE [matched_count |-> 0, coll |-> coll]

\* a delete that reports the document deleted and keeps it
delete_one_keep(coll, oid) == [deleted_count |-> IF oid \in DOMAIN coll THEN 1 ELSE 0, coll |-> coll]

\* delete_one({"_id": oid})
delete_one(coll, oid) ==
    IF oid \in DOMAIN coll
    THEN [deleted_count |-> 1, coll |-> Restrict(coll, DOMAIN coll \ {oid})]
    ELSE [deleted_count |-> 0, coll |-> coll]

\* ------------------------------------------------------------------- treks
\* A handler is an operator from the request to [resp, coll, io]: the
\* response, the collection as the handler leaves it, and the calls it made
\* to the store and to the mail transport, in order.  FastAPI resolves the
\* Depends(require_admin) dependency first, then validates the body and the
\* query, and only then calls the handler's body.

Regex(pat) == [regex |-> pat, options |-> "i"]

ValidTrekQuery(q) == ("min_days" \in DOMAIN q => q.min_days >= 1) /\ ("max_days" \in DOMAIN q => q.max_days >= 1)

TrekFilter(q) ==
    (IF Truthy(q, "region") THEN "region" :> Regex(q.region) ELSE <<>>)
    @@ (IF Truthy(q, "difficulty") THEN "difficulty" :> Regex(<<"^">> \o q.difficulty \o <<"$">>) ELSE <<>>)
    @@ (IF "min_days" \in DOMAIN q \/ "max_days" \in DOMAIN q
        THEN "duration_days" :> ((IF "min_days" \in DOMAIN q THEN "gte" :> q.min_days ELSE <<>>)
                                 @@ (IF "max_days" \in DOMAIN q THEN "lte" :> q.max_days ELSE <<>>))
        ELSE <<>>)
    @@ (IF Truthy(q, "search")
        THEN "or" :> << "title" :> Regex(q.search), "overview" :> Regex(q.search), "highlights" :> [elemMatch |-> Regex(q.search)] >>
        ELSE <<>>)
    @@ (IF "featured" \in DOMAIN q THEN "is_featured" :> [eq |-> q.featured] ELSE <<>>)

list_treks(q) ==
    IF ~ValidTrekQuery(q) THEN [resp |-> RequestValidationError, coll |-> trek, io |-> <<>>]
    ELSE [resp |-> Ok(SerializeAll(get_documents(trek, TrekFilter(q)))), coll |-> trek, io |-> <<"find">>]

get_trek(trek_id) ==
    LET o == to_object_id(trek_id)
    IN  IF ~o.ok THEN [resp |-> o.exc, coll |-> trek, io |-> <<>>]
        ELSE IF find_one(trek, o.oid) = <<>> THEN [resp |-> HTTPException(404, "Trek not found"), coll |-> trek, io |-> <<"find_one">>]
        ELSE [resp |-> Ok(serialize_doc(find_one(trek, o.oid)[1])), coll |-> trek, io |-> <<"find_one">>]

create_trek(payload, headers) ==
    LET gate == require_admin(headers)
    IN  IF ~gate.ok THEN [resp |-> gate.exc, coll |-> trek, io |-> <<>>]
        ELSE IF ~ValidTrek(payload) THEN [resp |-> RequestValidationError, coll |-> trek, io |-> <<>>]
        ELSE [resp |-> Ok([id |-> NewObjectId(oid_count + 1)]), coll |-> create_document(trek, Trek(payload), oid_count + 1), io |-> <<"insert_one">>]

update_trek(trek_id, payload, headers) ==
    LET gate == require_admin(headers)
        o    == to_object_id(trek_id)
        res  == update_one(trek, o.oid, Trek(payload) @@ ("updated_at" :> datetime(now)), TrekFields \cup {"updated_at"})
    IN  IF ~gate.ok THEN [resp |-> gate.exc, coll |-> trek, io |-> <<>>]
        ELSE IF ~ValidTrek(payload) THEN [resp |-> RequestValidationError, coll |-> trek, io |-> <<>>]
        ELSE IF ~o.ok THEN [resp |-> o.exc, coll |-> trek, io |-> <<>>]
        ELSE IF res.matched_count = 0 THEN [resp |-> HTTPException(404, "Trek not found"), coll |-> res.coll, io |-> <<"update_one">>]
        ELSE [resp |-> Ok(serialize_doc(find_one(res.coll, o.oid)[1])), coll |-> res.coll, io |-> <<"update_one", "find_one">>]

delete_trek(trek_id, headers) ==
    LET gate == require_admin(headers)
        o    == to_object_id(trek_id)
        res  == delete_one(trek, o.oid)
    IN  IF ~gate.ok THEN [resp |-> gate.exc, coll |-> trek, io |-> <<>>]
        ELSE IF ~o.ok THEN [resp |-> o.exc, coll |-> trek, io |-> <<>>]
        ELSE IF res.deleted_count = 0 THEN [resp |-> HTTPException(404, "Trek not found"), coll |-> res.coll, io |-> <<"delete_one">>]
        ELSE [resp |-> Ok([id |-> trek_id]), coll |-> res.coll, io |-> <<"delete_one">>]

\* -------------------------------------------------------------- blog posts

BlogFilter(q) ==
    (IF Truthy(q, "tag") THEN "tags" :> [elemMatch |-> Regex(q.tag)] ELSE <<>>)
    @@ (IF Truthy(q, "search")
        THEN "or" :> << "title" :> Regex(q.search), "content" :> Regex(q.search) >>
        ELSE <<>>)

list_blog_posts(q) == [resp |-> Ok(SerializeAll(get_documents(blogpost, BlogFilter(q)))), coll |-> blogpost, io |-> <<"find">>]

get_blog_post(post_id) ==
    LET o == to_object_id(post_id)
    IN  IF ~o.ok THEN [resp |-> o.exc, coll |-> blogpost, io |-> <<>>]
        ELSE IF find_one(blogpost, o.oid) = <<>> THEN [resp |-> HTTPException(404, "Post not found"), coll |-> blogpost, io |-> <<"find_one">>]
        ELSE [resp |-> Ok(serialize_doc(find_one(blogpost, o.oid)[1])), coll |-> blogpost, io |-> <<"find_one">>]

create_blog_post(payload, headers) ==
    LET gate == require_admin(headers)
    IN  IF ~gate.ok THEN [resp |-> gate.exc, coll |-> blogpost, io |-> <<>>]
        ELSE IF ~ValidBlogPost(payload) THEN [resp |-> RequestValidationError, coll |-> blogpost, io |-> <<>>]
        ELSE [resp |-> Ok([id |-> NewObjectId(oid_count + 1)]), coll |-> create_document(blogpost, BlogPost(payload), oid_count + 1), io |-> <<"insert_one">>]

update_blog_post(post_id, payload, headers) ==
    LET gate == require_admin(headers)
        o    == to_object_id(post_id)
        res  == update_one(blogpost, o.oid, BlogPost(payload) @@ ("updated_at" :> datetime(now)), BlogPostFields \cup {"updated_at"})
    IN  IF ~gate.ok THEN [resp |-> gate.exc, coll |-> blogpost, io |-> <<>>]
        ELSE IF ~ValidBlogPost(payload) THEN [resp |-> RequestValidationError, coll |-> blogpost, io |-> <<>>]
        ELSE IF ~o.ok THEN [resp |-> o.exc, coll |-> blogpost, io |-> <<>>]
        ELSE IF res.matched_count = 0 THEN [resp |-> HTTPException(404, "Post not found"), coll |-> res.coll, io |-> <<"update_one">>]
        ELSE [resp |-> Ok(serialize_doc(find_one(res.coll, o.oid)[1])), coll |-> res.coll, io |-> <<"update_one", "find_one">>]

delete_blog_post(post_id, headers) ==
    LET gate == require_admin(headers)
        o    == to_object_id(post_id)
        res  == delete_one(blogpost, o.oid)
    IN  IF ~gate.ok THEN [resp |-> gate.exc, coll |-> blogpost, io |-> <<>>]
        ELSE IF ~o.ok THEN [resp |-> o.exc, coll |-> blogpost, io |-> <<>>]
        ELSE IF res.deleted_count = 0 THEN [resp |-> HTTPException(404, "Post not found"), coll |-> res.coll, io |-> <<"delete_one">>]
        ELSE [resp |-> Ok([id |-> post_id]), coll |-> res.coll, io |-> <<"delete_one">>]

\* --------------------------------------------------------------- inquiries

\* try_send_email: transport_ok says whether the SMTP session (connect,
\* login, sendmail) runs to its end or raises.  The result tells whether the
\* call raised, what it returned, and the session it opened, if any.
try_send_email(subject, to_email, transport_ok) ==
    LET port_text == IF "SMTP_PORT" \in DOMAIN env THEN env["SMTP_PORT"] ELSE "0"
        port == IF port_text = "" THEN 0 ELSE IntOfStr[port_text]
        from_email == IF "SMTP_FROM" \in DOMAIN env THEN env["SMTP_FROM"]
                      ELSE IF EnvSet("SMTP_USER") THEN env["SMTP_USER"] ELSE "noreply@example.com"
    IN  IF port_text /= "" /\ port_text \notin DOMAIN IntOfStr
        THEN [raised |-> TRUE, ret |-> FALSE, transport |-> <<>>]
        ELSE IF ~(EnvSet("SMTP_HOST") /\ port /= 0 /\ EnvSet("SMTP_USER") /\ EnvSet("SMTP_PASS"))
        THEN [raised |-> FALSE, ret |-> FALSE, transport |-> <<>>]
        ELSE [raised |-> FALSE, ret |-> transport_ok,
              transport |-> <<[host |-> env["SMTP_HOST"], port |-> port, user |-> env["SMTP_USER"], from_email |-> from_email, to_email |-> to_email, subject |-> subject, completed |-> transport_ok]>>]

\* the transport calls of a sequence of try_send_email calls
SmtpIo(calls) == [i \in 1..Len(SelectSeq(calls, LAMBDA c : c.transport /= <<>>)) |-> "SMTP_SSL"]

\* create_inquiry: admin_up and client_up are the two sessions' outcomes.
\* calls lists the try_send_email calls made, in order; a call that raises
\* ends the handler.
create_inquiry(payload, admin_up, client_up) ==
    LET stored == create_document(inquiry, Inquiry(payload), oid_count + 1)
        new_id == NewObjectId(oid_count + 1)
        a == try_send_email("New Trek Inquiry", env["ADMIN_NOTIFY_EMAIL"], admin_up)
        c == try_send_email("We received your inquiry - Juma Trek", payload.email, client_up)
        first == IF EnvSet("ADMIN_NOTIFY_EMAIL") THEN <<a>> ELSE <<>>
        admin_ok == IF EnvSet("ADMIN_NOTIFY_EMAIL") THEN a.ret ELSE FALSE
        note == IF c.ret \/ admin_ok THEN " Email notifications sent." ELSE " Email notifications skipped."
    IN  IF ~ValidInquiry(payload) THEN [resp |-> RequestValidationError, coll |-> inquiry, calls |-> <<>>, io |-> <<>>]
        ELSE IF EnvSet("ADMIN_NOTIFY_EMAIL") /\ a.raised THEN [resp |-> InternalServerError, coll |-> stored, calls |-> <<a>>, io |-> <<"insert_one">>]
        ELSE IF c.raised THEN [resp |-> InternalServerError, coll |-> stored, calls |-> first \o <<c>>, io |-> <<"insert_one">> \o SmtpIo(first)]
        ELSE [resp |-> Ok([message |-> <<"Inquiry submitted successfully.", note>>, id |-> new_id]), coll |-> stored,
              calls |-> first \o <<c>>, io |-> <<"insert_one">> \o SmtpIo(first \o <<c>>)]

\* a listing that returns the newest inquiry alone
list_inquiries_newest(headers) ==
    LET gate == require_admin(headers)
        docs == get_documents(inquiry, <<>>)
    IN  IF ~gate.ok THEN [resp |-> gate.exc, coll |-> inquiry, io |-> <<>>]
        ELSE [resp |-> Ok(SerializeAll(IF docs = <<>> THEN <<>> ELSE <<docs[Len(docs)]>>)), coll |-> inquiry, io |-> <<"find">>]

list_inquiries(headers) ==
    LET gate == require_admin(headers)
    IN  IF ~gate.ok THEN [resp |-> gate.exc, coll |-> inquiry, io |-> <<>>]
        ELSE [resp |-> Ok(SerializeAll(get_documents(inquiry, <<>>))), coll |-> inquiry, io |-> <<"find">>]

\* ------------------------------------------------------------- admin users

\* PBKDF2-HMAC-SHA256 of the password under the salt, 100000 rounds, as hex:
\* a value that determines both (no collisions).  salt is "" for None;
\* token is what secrets.token_hex(16) would return.
hash_password(password, salt, token) ==
    LET s == IF salt /= "" THEN salt ELSE token
    IN  [dk |-> <<"pbkdf2_hmac", "sha256", password, s>>, salt |-> s]

create_admin_user(payload, headers, token) ==
    LET gate == require_admin(headers)
        h == hash_password(payload.password, "", token)
        admin_doc == [email |-> payload.email, password_hash |-> h.dk, password_salt |-> h.salt]
                     @@ Restrict(payload, {"full_name"}) @@ AdminUserDefaults
    IN  IF ~gate.ok THEN [resp |-> gate.exc, coll |-> adminuser, io |-> <<>>]
        ELSE IF ~ValidCreateAdmin(payload) THEN [resp |-> RequestValidationError, coll |-> adminuser, io |-> <<>>]
        ELSE [resp |-> Ok([id |-> NewObjectId(oid_count + 1)]), coll |-> create_document(adminuser, admin_doc, oid_count + 1), io |-> <<"insert_one">>]

\* find_one({"email": email}): any one of the matching documents (the store
\* promises no order), or the empty sequence
FindByEmail(coll, email) ==
    LET m == {o \in DOMAIN coll : coll[o].email = email}
    IN  IF m = {} THEN {<<>>} ELSE {<<coll[o]>> : o \in m}

\* a login that does not compare the hashes
admin_login_any_password(payload, found, token) ==
    IF ~ValidAdminAuth(payload) THEN [resp |-> RequestValidationError, coll |-> adminuser, io |-> <<>>]
    ELSE IF found = <<>> THEN [resp |-> HTTPException(401, "Invalid credentials"), coll |-> adminuser, io |-> <<"find_one">>]
    ELSE [resp |-> Ok([token |-> IF EnvSet("ADMIN_API_KEY") THEN env["ADMIN_API_KEY"] ELSE "dev-admin",
                       user |-> [email |-> found[1].email, id |-> found[1]["_id"]]]), coll |-> adminuser, io |-> <<"find_one">>]

\* admin_login: found is what find_one returned
admin_login(payload, found, token) ==
    LET user == found[1]
        calc == hash_password(payload.password, user.password_salt, token)
    IN  IF ~ValidAdminAuth(payload) THEN [resp |-> RequestValidationError, coll |-> adminuser, io |-> <<>>]
        ELSE IF found = <<>> THEN [resp |-> HTTPException(401, "Invalid credentials"), coll |-> adminuser, io |-> <<"find_one">>]
        ELSE IF calc.dk /= user.password_hash THEN [resp |-> HTTPException(401, "Invalid credentials"), coll |-> adminuser, io |-> <<"find_one">>]
        ELSE [resp |-> Ok([token |-> IF EnvSet("ADMIN_API_KEY") THEN env["ADMIN_API_KEY"] ELSE "dev-admin",
                           user |-> [email |-> user.email, id |-> user["_id"]]]), coll |-> adminuser, io |-> <<"find_one">>]

\* ----------------------------------------------------------- root and health

read_root == [resp |-> Ok([message |-> "Juma Trek API is running"]), io |-> <<>>]

\* /test: the collections the database holds are those ever written to
test_database ==
    [resp |-> Ok([backend |-> "Running", database |-> "Connected & Working",
                  database_url |-> IF EnvSet("DATABASE_URL") THEN "Set" ELSE "Not Set",
                  connection_status |-> "Connected",
                  collections |-> {created[o].coll : o \in DOMAIN created}]),
     io |-> <<"list_collection_names">>]

get_schema_definitions == [resp |-> Ok([trek |-> TrekFields, blogpost |-> BlogPostFields, inquiry |-> InquiryFields, adminuser |-> {"email", "password_hash", "password_salt", "full_name", "role"}]), io |-> <<>>]

\* ------------------------------------------------------------------ inputs

NoHeaders == <<>>

Headers == {NoHeaders, "x-admin-key" :> "s3cret", "x-admin-key" :> "wrong"}

EnvValues == [ADMIN_API_KEY |-> {"", "s3cret"}, ADMIN_NOTIFY_EMAIL |-> {"boss@example.com"}, SMTP_HOST |-> {"mail.example.com"}, SMTP_PORT |-> {"465", "0", "", "smtp"}, SMTP_USER |-> {"mailer"}, SMTP_PASS |-> {"hunter2"}, SMTP_FROM |-> {"treks@example.com"}]

\* every environment that sets some of the variables of names
Envs(names) == UNION {{e \in [S -> UNION {EnvValues[k] : k \in S}] : \A k \in S : e[k] \in EnvValues[k]} : S \in SUBSET names}

SmtpNames == {"SMTP_HOST", "SMTP_PORT", "SMTP_USER", "SMTP_PASS", "SMTP_FROM"}

SmtpUp == [SMTP_HOST |-> "mail.example.com", SMTP_PORT |-> "465", SMTP_USER |-> "mailer", SMTP_PASS |-> "hunter2", SMTP_FROM |-> "treks@example.com", ADMIN_NOTIFY_EMAIL |-> "boss@example.com"]

NotAnId == <<"n","o","t","-","a","n","-","i","d">>

ShortHex == [i \in 1..(OidLen - 1) |-> "a"]

NonHex == [i \in 1..OidLen |-> IF i = OidLen THEN "g" ELSE "a"]

Malformed == {NotAnId, ShortHex, NonHex}

sIce == <<"I","c","e">>

sHill == <<"H","i","l","l">>

sEasy == <<"E","a","s","y">>

sHard == <<"H","a","r","d">>

TrekA == [title |-> sIce, slug |-> <<"i","c","e">>, region |-> <<"E","v","e","r","e","s","t">>, difficulty |-> sEasy, duration_days |-> 7, price_usd |-> 900, max_altitude_m |-> 5000, highlights |-> << <<"n","i","c","e">>, <<"v","i","e","w">> >>, overview |-> <<"c","o","l","d">>, is_featured |-> TRUE]

TrekB == [title |-> sHill, region |-> <<"A","n","n","a">>, difficulty |-> sHard, duration_days |-> 3, price_usd |-> 0, overview |-> <<"w","a","r","m">>]

TrekBad == [title |-> sHill, region |-> <<"A","n","n","a">>, difficulty |-> sHard, duration_days |-> 0, price_usd |-> 0, overview |-> <<"w","a","r","m">>]

TrekBodies == {TrekA, TrekB, TrekBad}

TrekQueries == {<<>>, [region |-> <<"e","v","e">>], [difficulty |-> <<"e","a","s","y">>], [min_days |-> 5, max_days |-> 10], [min_days |-> 0], [search |-> <<"i","c","e">>], [featured |-> FALSE]}

BlogA == [title |-> sIce, slug |-> <<"i","c","e">>, content |-> <<"s","n","o","w">>, tags |-> << <<"n","i","c","e">>, <<"T","r","e","k">> >>, published_on |-> [date |-> 20240101]]

BlogB == [title |-> sHill, content |-> <<"s","u","n">>, tags |-> << <<"I","C","E">> >>, published |-> FALSE]

BlogBad == [title |-> sHill]

BlogBodies == {BlogA, BlogB, BlogBad}

BlogQueries == {<<>>, [tag |-> <<"i","c","e">>], [tag |-> <<"t","r","e","k">>], [tag |-> <<>>], [search |-> <<"s","n","o">>]}

MailA == <<"a","@","x",".","i","o">>

MailB == <<"b","@","x",".","i","o">>

MailBad == <<"n","o","p","e">>

InqA == [name |-> <<"A","l">>, email |-> MailA, message |-> <<"h","i">>, trek_id |-> NewObjectId(1), travelers |-> 2]

InqB == [name |-> <<"B","o">>, email |-> MailB, message |-> <<"y","o">>]

InqBad == [name |-> <<"B","o">>, email |-> MailB, message |-> <<"y","o">>, travelers |-> 0]

InqBadMail == [name |-> <<"B","o">>, email |-> MailBad, message |-> <<"y","o">>]

InquiryBodies == {InqA, InqB, InqBad, InqBadMail}

Passwords == {"pw1", "pw2"}

Tokens == {"salt1", "salt2"}

CreateAdminBodies == {[email |-> e, password |-> w] : e \in {MailA, MailB}, w \in Passwords} \cup {[email |-> MailA, password |-> "pw1", full_name |-> <<"A","l">>], [email |-> MailBad, password |-> "pw1"]}

AdminAuthBodies == {[email |-> e, password |-> w] : e \in {MailA, MailB, MailBad}, w \in Passwords}

\* the documents a database may hold when the process starts: each is what
\* the create route stores for one of the bodies above
SeedTrek == create_document(<<>>, Trek(TrekA), 1)

SeedBlog == create_document(<<>>, BlogPost(BlogA), 2)

SeedInquiry == create_document(<<>>, Inquiry(InqA), 3)

SeedAdmin == create_document(<<>>, [email |-> MailA, password_hash |-> hash_password("pw1", "", "salt1").dk, password_salt |-> "salt1"] @@ AdminUserDefaults, 4)

SeedCount == Cardinality({SeedTrek, SeedBlog, SeedInquiry, SeedAdmin})

TrekIds == {NewObjectId(1), UpperStr(NewObjectId(1)), NewObjectId(SeedCount + 1)} \cup Malformed

BlogIds == {NewObjectId(2), UpperStr(NewObjectId(2)), NewObjectId(SeedCount + 1)} \cup Malformed

\* ------------------------------------------------------------------- state
\* env, the four collections, oid_count (identifiers generated so far) and
\* now (the clock) are the program's state; req and resp are the request
\* being answered and its response.  History variables: created (when and
\* where each identifier was stored), removed (the identifiers deleted),
\* pre (the collections and removed as the request found them), io (the
\* store and transport calls of the request) and smtp_calls (its
\* try_send_email calls).

NoRequest == [route |-> "none"]

NoResponse == [status |-> 0, detail |-> "", body |-> <<>>]

Snapshot == [trek |-> trek, blogpost |-> blogpost, inquiry |-> inquiry, adminuser |-> adminuser, removed |-> removed]

InitWith(envs, treks, blogs, inquiries, admins) ==
    /\ env \in envs
    /\ trek \in treks
    /\ blogpost \in blogs
    /\ inquiry \in inquiries
    /\ adminuser \in admins
    /\ oid_count = SeedCount
    /\ now = 1
    /\ created = [o \in DOMAIN trek \cup DOMAIN blogpost \cup DOMAIN inquiry \cup DOMAIN adminuser |->
                    [coll |-> IF o \in DOMAIN trek THEN "trek" ELSE IF o \in DOMAIN blogpost THEN "blogpost" ELSE IF o \in DOMAIN inquiry THEN "inquiry" ELSE "adminuser", at |-> 0]]
    /\ removed = {}
    /\ pre = <<>>
    /\ req = NoRequest
    /\ resp = NoResponse
    /\ io = <<>>
    /\ smtp_calls = <<>>

\* the server is idle, takes request q and answers r; the clock moves on
Answer(q, h) == req = NoRequest /\ req' = q /\ resp' = h.resp /\ io' = h.io /\ pre' = Snapshot /\ now' = now + 1 /\ env' = env

\* the response has gone out and the server is idle again
Deliver == req /= NoRequest /\ req' = NoRequest /\ resp' = NoResponse /\ io' = <<>> /\ pre' = <<>> /\ smtp_calls' = <<>> /\ UNCHANGED <<env, trek, blogpost, inquiry, adminuser, oid_count, now, created, removed>>

\* the store's bookkeeping when a handler leaves collection name as after
Stored(before, after, name) ==
    /\ Cardinality(DOMAIN after) <= MaxDocs
    /\ oid_count' = IF DOMAIN after \subseteq DOMAIN before THEN oid_count ELSE oid_count + 1
    /\ created' = [o \in DOMAIN created \cup (DOMAIN after \ DOMAIN before) |-> IF o \in DOMAIN created THEN created[o] ELSE [coll |-> name, at |-> now]]
    /\ removed' = removed \cup (DOMAIN before \ DOMAIN after)

ReadRoot == Answer([route |-> "read_root"], read_root) /\ smtp_calls' = <<>> /\ UNCHANGED <<trek, blogpost, inquiry, adminuser, oid_count, created, removed>>

TestDatabase == Answer([route |-> "test_database"], test_database) /\ smtp_calls' = <<>> /\ UNCHANGED <<trek, blogpost, inquiry, adminuser, oid_count, created, removed>>

GetSchemaDefinitions == Answer([route |-> "get_schema_definitions"], get_schema_definitions) /\ smtp_calls' = <<>> /\ UNCHANGED <<trek, blogpost, inquiry, adminuser, oid_count, created, removed>>

OnTrek(q, h) == Answer(q, h) /\ trek' = h.coll /\ Stored(trek, h.coll, "trek") /\ smtp_calls' = <<>> /\ UNCHANGED <<blogpost, inquiry, adminuser>>

ListTreks(q) == OnTrek([route |-> "list_treks", query |-> q], list_treks(q))

GetTrek(id) == OnTrek([route |-> "get_trek", id |-> id], get_trek(id))

CreateTrek(p, h) == OnTrek([route |-> "create_trek", payload |-> p, headers |-> h], create_trek(p, h))

UpdateTrek(id, p, h) == OnTrek([route |-> "update_trek", id |-> id, payload |-> p, headers |-> h], update_trek(id, p, h))

DeleteTrek(id, h) == OnTrek([route |-> "delete_trek", id |-> id, headers |-> h], delete_trek(id, h))

OnBlog(q, h) == Answer(q, h) /\ blogpost' = h.coll /\ Stored(blogpost, h.coll, "blogpost") /\ smtp_calls' = <<>> /\ UNCHANGED <<trek, inquiry, adminuser>>

ListBlogPosts(q) == OnBlog([route |-> "list_blog_posts", query |-> q], list_blog_posts(q))

GetBlogPost(id) == OnBlog([route |-> "get_blog_post", id |-> id], get_blog_post(id))

CreateBlogPost(p, h) == OnBlog([route |-> "create_blog_post", payload |-> p, headers |-> h], create_blog_post(p, h))

UpdateBlogPost(id, p, h) == OnBlog([route |-> "update_blog_post", id |-> id, payload |-> p, headers |-> h], update_blog_post(id, p, h))

DeleteBlogPost(id, h) == OnBlog([route |-> "delete_blog_post", id |-> id, headers |-> h], delete_blog_post(id, h))

CreateInquiry(p, admin_up, client_up) ==
    LET h == create_inquiry(p, admin_up, client_up)
    IN  Answer([route |-> "create_inquiry", payload |-> p], h) /\ inquiry' = h.coll /\ Stored(inquiry, h.coll, "inquiry")
        /\ smtp_calls' = h.calls /\ UNCHANGED <<trek, blogpost, adminuser>>

ListInquiries(hd) ==
    LET h == list_inquiries(hd)
    IN  Answer([route |-> "list_inquiries", headers |-> hd], h) /\ inquiry' = h.coll /\ Stored(inquiry, h.coll, "inquiry")
        /\ smtp_calls' = <<>> /\ UNCHANGED <<trek, blogpost, adminuser>>

OnAdmin(q, h) == Answer(q, h) /\ adminuser' = h.coll /\ Stored(adminuser, h.coll, "adminuser") /\ smtp_calls' = <<>> /\ UNCHANGED <<trek, blogpost, inquiry>>

CreateAdminUser(p, hd, token) == OnAdmin([route |-> "create_admin_user", payload |-> p, headers |-> hd], create_admin_user(p, hd, token))

AdminLogin(p, token) == \E found \in FindByEmail(adminuser, p.email) : OnAdmin([route |-> "admin_login", payload |-> p], admin_login(p, found, token))

\* ---------------------------------------------------------- specifications

NextTrek(B) ==
    \/ \E q \in TrekQueries : now <= B /\ ListTreks(q)
    \/ \E id \in TrekIds : now <= B /\ GetTrek(id)
    \/ \E p \in TrekBodies, h \in Headers : now <= B /\ CreateTrek(p, h)
    \/ \E id \in TrekIds, p \in TrekBodies, h \in Headers : now <= B /\ UpdateTrek(id, p, h)
    \/ \E id \in TrekIds, h \in Headers : now <= B /\ DeleteTrek(id, h)

NextBlog(B) ==
    \/ \E q \in BlogQueries : now <= B /\ ListBlogPosts(q)
    \/ \E id \in BlogIds : now <= B /\ GetBlogPost(id)
    \/ \E p \in BlogBodies, h \in Headers : now <= B /\ CreateBlogPost(p, h)
    \/ \E id \in BlogIds, p \in BlogBodies, h \in Headers : now <= B /\ UpdateBlogPost(id, p, h)
    \/ \E id \in BlogIds, h \in Headers : now <= B /\ DeleteBlogPost(id, h)

NextInquiry(B) ==
    \/ \E p \in InquiryBodies, a \in BOOLEAN, c \in BOOLEAN : now <= B /\ CreateInquiry(p, a, c)
    \/ \E h \in Headers : now <= B /\ ListInquiries(h)

NextAdmin(B) ==
    \/ \E p \in CreateAdminBodies, h \in Headers, t \in Tokens : now <= B /\ CreateAdminUser(p, h, t)
    \/ \E p \in AdminAuthBodies, t \in Tokens : now <= B /\ AdminLogin(p, t)

NextMisc(B) ==
    \/ now <= B /\ ReadRoot
    \/ now <= B /\ TestDatabase
    \/ now <= B /\ GetSchemaDefinitions

\* the whole API
Init == InitWith(Envs({"ADMIN_API_KEY"}) \cup {SmtpUp}, {SeedTrek}, {SeedBlog}, {SeedInquiry}, {SeedAdmin})

Next == NextTrek(MaxReq) \/ NextBlog(MaxReq) \/ NextInquiry(MaxReq) \/ NextAdmin(MaxReq) \/ NextMisc(MaxReq) \/ Deliver

Spec == Init /\ [][Next]_vars

\* treks and blog posts
InitCrud == InitWith(Envs({"ADMIN_API_KEY"}), {<<>>, SeedTrek}, {<<>>, SeedBlog}, {<<>>}, {<<>>})

NextCrud == NextTrek(MaxReq) \/ NextBlog(MaxReq) \/ Deliver

SpecCrud == InitCrud /\ [][NextCrud]_vars

\* inquiries and their notifications
InitMail == InitWith(Envs(SmtpNames \cup {"ADMIN_NOTIFY_EMAIL", "ADMIN_API_KEY"}), {<<>>}, {<<>>}, {<<>>, SeedInquiry}, {<<>>})

NextMail == NextInquiry(MaxReq) \/ Deliver

SpecMail == InitMail /\ [][NextMail]_vars

\* admin accounts and login
InitAdmin == InitWith(Envs({"ADMIN_API_KEY"}), {<<>>}, {<<>>}, {<<>>}, {<<>>, SeedAdmin})

NextAccounts == NextAdmin(MaxReq) \/ Deliver

SpecAdmin == InitAdmin /\ [][NextAccounts]_vars

\* ------------------------------------------------------------------ claims
\* The formulas speak of the request being answered (req), its response
\* (resp), its calls (io), the collections as it found them (pre) and as it
\* left them.

GatedRoutes == {"create_trek", "update_trek", "delete_trek", "create_blog_post", "update_blog_post", "delete_blog_post", "list_inquiries", "create_admin_user"}

ByIdRoutes == {"get_trek", "update_trek", "delete_trek", "get_blog_post", "update_blog_post", "delete_blog_post"}

KeyConfigured == "ADMIN_API_KEY" \in DOMAIN env /\ env["ADMIN_API_KEY"] /= ""

HeaderMatches == "x-admin-key" \in DOMAIN req.headers /\ req.headers["x-admin-key"] = env["ADMIN_API_KEY"]

\* the request is let through: its route has no gate, or no key is configured, or its header carries the key
PassesGate == req.route \notin GatedRoutes \/ ~KeyConfigured \/ HeaderMatches

PayloadValid ==
    CASE req.route \in {"create_trek", "update_trek"} -> ValidTrek(req.payload)
      [] req.route \in {"create_blog_post", "update_blog_post"} -> ValidBlogPost(req.payload)
      [] req.route = "create_inquiry" -> ValidInquiry(req.payload)
      [] req.route = "create_admin_user" -> ValidCreateAdmin(req.payload)
      [] req.route = "admin_login" -> ValidAdminAuth(req.payload)
      [] OTHER -> TRUE

CollectionsUnchanged == trek = pre.trek /\ blogpost = pre.blogpost /\ inquiry = pre.inquiry /\ adminuser = pre.adminuser

LowerHexDigits == {"0","1","2","3","4","5","6","7","8","9","a","b","c","d","e","f"}

\* the wire format of section 6: 24 lower-case hexadecimal characters
IsWireId(s) == Len(s) = 24 /\ \A i \in 1..Len(s) : s[i] \in LowerHexDigits

\* 24 hexadecimal characters of either case
IsHex24(s) == Len(s) = 24 /\ \A i \in 1..Len(s) : s[i] \in LowerHexDigits \cup {"A","B","C","D","E","F"}

\* C1: on an admin-gated route, with a key configured a request whose
\* X-Admin-Key is absent or different is answered 401, makes no call and
\* changes no collection; with no key configured no request is answered 401,
\* and a create-Trek request with a valid payload succeeds and stores a trek.
C1_AdminGate ==
    req.route \in GatedRoutes =>
        /\ (KeyConfigured /\ ~HeaderMatches) => (resp.status = 401 /\ resp.detail = "Unauthorized" /\ io = <<>> /\ CollectionsUnchanged)
        /\ ~KeyConfigured => resp.status /= 401
        /\ (~KeyConfigured /\ req.route = "create_trek" /\ ValidTrek(req.payload)) =>
               (resp.status = 200 /\ resp.body.id \in DOMAIN trek /\ resp.body.id \notin DOMAIN pre.trek)

C1_Witness == req.route = "create_trek" /\ KeyConfigured /\ "x-admin-key" \notin DOMAIN req.headers /\ ValidTrek(req.payload) /\ resp.status = 401

DeleteLaw(before, after) ==
    LET oid == LowerStr(req.id)
    IN  (PassesGate /\ IsHex24(req.id)) =>
            /\ oid \in DOMAIN before =>
                   /\ resp.status = 200 /\ resp.body = [id |-> req.id]
                   /\ DOMAIN after = DOMAIN before \ {oid}
                   /\ \A o \in DOMAIN after : after[o] = before[o]
            /\ oid \in pre.removed => (resp.status = 404 /\ after = before)

\* C3: an authorized delete of a stored trek or blog post returns {id} and
\* removes that record and no other; an authorized delete of an identifier
\* deleted before is answered 404 and changes nothing, and so is a get of it.
C3_DeleteIdempotent ==
    /\ req.route = "delete_trek" => (DeleteLaw(pre.trek, trek) /\ blogpost = pre.blogpost)
    /\ req.route = "delete_blog_post" => (DeleteLaw(pre.blogpost, blogpost) /\ trek = pre.trek)
    /\ (req.route \in {"get_trek", "get_blog_post"} /\ IsHex24(req.id) /\ LowerStr(req.id) \in pre.removed) => resp.status = 404

C3_Witness == req.route = "delete_trek" /\ PassesGate /\ KeyConfigured /\ IsHex24(req.id) /\ LowerStr(req.id) \in pre.removed /\ resp.status = 404

\* field f is the same in records a and b (null when absent)
SameField(a, b, f) == (f \in DOMAIN a <=> f \in DOMAIN b) /\ (f \in DOMAIN a => a[f] = b[f])

\* C4: an authorized update of a stored trek with a valid payload, then a
\* get of it: every Trek field is the payload's, updated_at is set and later
\* than the record's creation, and no other record changed; the update of an
\* identifier that is not stored is answered 404 and stores nothing.
C4_UpdateThenGet ==
    (req.route = "update_trek" /\ PassesGate /\ ValidTrek(req.payload) /\ IsHex24(req.id)) =>
        LET oid == LowerStr(req.id)
            got == get_trek(req.id).resp
        IN  /\ oid \in DOMAIN pre.trek =>
                   /\ resp.status = 200 /\ got.status = 200
                   /\ got.body = resp.body
                   /\ got.body.id = oid
                   /\ \A f \in TrekFields : SameField(got.body, Trek(req.payload), f)
                   /\ "updated_at" \in DOMAIN got.body /\ got.body.updated_at.iso > created[oid].at
                   /\ DOMAIN trek = DOMAIN pre.trek
                   /\ \A o \in DOMAIN trek \ {oid} : trek[o] = pre.trek[o]
                   /\ blogpost = pre.blogpost /\ inquiry = pre.inquiry /\ adminuser = pre.adminuser
            /\ oid \notin DOMAIN pre.trek => (resp.status = 404 /\ CollectionsUnchanged)

C4_Witness == req.route = "update_trek" /\ resp.status = 200 /\ req.payload = TrekB /\ "slug" \in DOMAIN pre.trek[LowerStr(req.id)] /\ Cardinality(DOMAIN trek) = 2

\* some required mail setting (host, port, username, password, sender address) is absent
MailSettingAbsent == \E k \in {"SMTP_HOST", "SMTP_PORT", "SMTP_USER", "SMTP_PASS", "SMTP_FROM"} : k \notin DOMAIN env \/ env[k] = ""

\* no mail setting is present at all
NoMailSettings == \A k \in {"SMTP_HOST", "SMTP_PORT", "SMTP_USER", "SMTP_PASS", "SMTP_FROM"} : k \notin DOMAIN env

\* C5 as claimed: a valid inquiry is answered 200 with the new id whatever
\* the sends do; the insert is the first call made and the inquiry stays
\* stored, so the admin list returns it; with no mail settings the message
\* says the notifications were skipped.
C5_InquiryAlwaysAccepted ==
    (req.route = "create_inquiry" /\ ValidInquiry(req.payload)) =>
        /\ resp.status = 200
        /\ io /= <<>> /\ io[1] = "insert_one"
        /\ resp.body.id \in DOMAIN inquiry /\ resp.body.id \notin DOMAIN pre.inquiry
        /\ \A f \in InquiryFields : SameField(inquiry[resp.body.id], Inquiry(req.payload), f)
        /\ LET listed == list_inquiries(IF KeyConfigured THEN "x-admin-key" :> env["ADMIN_API_KEY"] ELSE NoHeaders).resp.body
           IN  \E i \in 1..Len(listed) : listed[i].id = resp.body.id
        /\ NoMailSettings => resp.body.message[2] = " Email notifications skipped."

\* the part of C5 the code keeps: a valid inquiry is stored first and stays
\* stored, whatever the answer
C5_InquiryStoredFirst ==
    (req.route = "create_inquiry" /\ ValidInquiry(req.payload)) =>
        /\ io /= <<>> /\ io[1] = "insert_one"
        /\ Cardinality(DOMAIN inquiry \ DOMAIN pre.inquiry) = 1
        /\ \A o \in DOMAIN pre.inquiry : o \in DOMAIN inquiry /\ inquiry[o] = pre.inquiry[o]
        /\ resp.status \in {200, 500}
        /\ (resp.status = 500 <=> ("SMTP_PORT" \in DOMAIN env /\ env["SMTP_PORT"] \notin {"", "0", "465"}))

\* C8 as claimed: a try_send_email call never raises; with a required
\* setting absent it opens no session and returns false; it returns true
\* only when its session ran to the end.
C8_GatewayNeverRaises ==
    \A i \in 1..Len(smtp_calls) :
        /\ ~smtp_calls[i].raised
        /\ MailSettingAbsent => (smtp_calls[i].transport = <<>> /\ ~smtp_calls[i].ret)
        /\ smtp_calls[i].ret => (smtp_calls[i].transport /= <<>> /\ smtp_calls[i].transport[1].completed)

\* C6: a login whose e-mail no admin user has, or whose password hashes
\* (under the stored salt) to the stored hash of no admin user with that
\* e-mail, is answered 401 "Invalid credentials", the same response in both
\* cases; a login is answered 200 only for a user whose e-mail and hash
\* match, with the configured key as token, or "dev-admin" when none is.
C6_Login ==
    (req.route = "admin_login" /\ ValidAdminAuth(req.payload)) =>
        LET users == {o \in DOMAIN adminuser : adminuser[o].email = req.payload.email}
            good  == {o \in users : adminuser[o].password_hash = <<"pbkdf2_hmac", "sha256", req.payload.password, adminuser[o].password_salt>>}
        IN  /\ resp.status \in {200, 401}
            /\ users = {} => resp = HTTPException(401, "Invalid credentials")
            /\ good = {} => resp = HTTPException(401, "Invalid credentials")
            /\ resp.status = 401 => resp = HTTPException(401, "Invalid credentials")
            /\ (users /= {} /\ good = users) => resp.status = 200
            /\ resp.status = 200 =>
                   /\ resp.body.user.id \in good
                   /\ resp.body.user.email = req.payload.email
                   /\ resp.body.token = (IF KeyConfigured THEN env["ADMIN_API_KEY"] ELSE "dev-admin")
            /\ CollectionsUnchanged

C6_Witness ==
    /\ req.route = "admin_login" /\ resp.status = 401 /\ KeyConfigured
    /\ \E o \in DOMAIN adminuser : adminuser[o].email = req.payload.email /\ adminuser[o].password_salt = "salt2"

\* C7: no request changes or removes a stored inquiry; a stored inquiry is
\* the payload it was created from; the admin list returns every stored
\* inquiry, each once, with its fields as stored.
C7_InquiryImmutable ==
    req /= NoRequest =>
        /\ \A o \in DOMAIN pre.inquiry : o \in DOMAIN inquiry /\ inquiry[o] = pre.inquiry[o]
        /\ \A o \in DOMAIN inquiry \ DOMAIN pre.inquiry :
               req.route = "create_inquiry" /\ \A f \in InquiryFields : SameField(inquiry[o], Inquiry(req.payload), f)
        /\ (req.route = "list_inquiries" /\ PassesGate) =>
               /\ resp.status = 200
               /\ Len(resp.body) = Cardinality(DOMAIN inquiry)
               /\ \A o \in DOMAIN inquiry : \E i \in 1..Len(resp.body) :
                      resp.body[i].id = o /\ \A f \in InquiryFields : SameField(resp.body[i], inquiry[o], f)

C7_Witness == req.route = "list_inquiries" /\ KeyConfigured /\ PassesGate /\ Len(resp.body) = 2 /\ resp.body[1].email = MailA /\ resp.body[2].email = MailB

\* C9 as claimed: a listing filtered by a tag returns exactly the posts one
\* of whose tags is that tag, letter case aside; without the tag parameter
\* the tags do not matter.
C9_TagFilterExact ==
    (req.route = "list_blog_posts" /\ "search" \notin DOMAIN req.query) =>
        LET ids == {resp.body[i].id : i \in 1..Len(resp.body)}
        IN  /\ ("tag" \in DOMAIN req.query /\ req.query.tag /= <<>>) =>
                   ids = {o \in DOMAIN blogpost : \E j \in 1..Len(blogpost[o].tags) : LowerStr(blogpost[o].tags[j]) = LowerStr(req.query.tag)}
            /\ "tag" \notin DOMAIN req.query => ids = DOMAIN blogpost

\* what the code does with a tag: a post is returned when one of its tags
\* holds the filter value as a substring, letter case aside
C9_TagFilterSubstring ==
    (req.route = "list_blog_posts" /\ "search" \notin DOMAIN req.query) =>
        LET ids == {resp.body[i].id : i \in 1..Len(resp.body)}
            Holds(t, v) == \E a \in 1..(Len(t) + 1) : a + Len(v) - 1 <= Len(t) /\ LowerStr(SubSeq(t, a, a + Len(v) - 1)) = LowerStr(v)
        IN  /\ ("tag" \in DOMAIN req.query /\ req.query.tag /= <<>>) =>
                   ids = {o \in DOMAIN blogpost : \E j \in 1..Len(blogpost[o].tags) : Holds(blogpost[o].tags[j], req.query.tag)}
            /\ ("tag" \notin DOMAIN req.query \/ req.query.tag = <<>>) => ids = DOMAIN blogpost

ErrorStatuses == {400, 401, 404, 422}

ReadRoutes == {"list_treks", "get_trek", "list_blog_posts", "get_blog_post", "list_inquiries", "admin_login", "read_root", "test_database", "get_schema_definitions"}

\* C10: a request answered 400, 401, 404 or with a validation failure (422)
\* leaves the four collections as it found them, and so does every read
\* request; a request that fails validation or the gate makes no call.
C10_NoPartialWrites ==
    req /= NoRequest =>
        /\ resp.status \in ErrorStatuses => CollectionsUnchanged
        /\ req.route \in ReadRoutes => CollectionsUnchanged
        /\ (~PassesGate \/ ~PayloadValid) => (resp.status \in {401, 422} /\ io = <<>>)
        /\ \A i \in 1..Len(io) : io[i] \in {"insert_one", "update_one", "delete_one"} => (PassesGate /\ PayloadValid)

C10_Witness == req.route = "update_trek" /\ resp.status = 404 /\ io = <<"update_one">> /\ KeyConfigured /\ trek /= <<>>

====
